---------------------------- MODULE Spec2Model ----------------------------
(***************************************************************************)
(* AbsorberSimulation (src/app.py): the falling-film absorber solver.      *)
(*                                                                         *)
(* solve() is modelled as a state machine: the object as constructed,      *)
(* the set-up of solve (mass balance, tube count, seed state), one action  *)
(* per iteration of the marching loop, and the return statement.           *)
(*                                                                         *)
(* Number representation.  The program computes in IEEE-754 doubles.       *)
(*  - accumulated_length (and so z_axis) is modelled bit-exactly: a double *)
(*    is the integer count of 2^-56 it denotes, held in three 20-bit       *)
(*    limbs, and += rounds to 53 significant bits, ties to even.           *)
(*  - the physical quantities are scaled integers, every multiplication    *)
(*    and division rounded to nearest as the hardware does, at these       *)
(*    resolutions:                                                         *)
(*        masses              1 g/h          (1e-3 kg/h)                   *)
(*        mass_absorbed       1e-9 kg/s                                    *)
(*        concentrations      1e-4 mass fraction                           *)
(*        temperatures        0.01 C, saturating at +-TCap                 *)
(*        pressures           1 Pa                                         *)
(*        logarithms, exp     1e-5                                         *)
(*        heat rates          0.1                                          *)
(*        gamma 1e-6, Re_L 1e-3, h_film 0.1, U_overall 1                   *)
(*    pi is 355/113.  target_conc is held in hundredths.                   *)
(***************************************************************************)
EXTENDS Integers, Sequences, FiniteSets, TLC

----------------------------------------------------------------------------
(* Inputs the four sidebar fields can supply (valid: gas_flow > 0,         *)
(* 0 < target_conc < 1, gas_temp > -273).                                  *)
GasFlows   == {10, 100, 1000, 2500}
GasTemps   == {10, 40, 80}
TargetPcts == {3, 5, 16, 32, 50, 99}
CwTemps    == {5, 32}

(* Gas flows over which the tube count is compared.                        *)
MaxGasFlow == 300

(* Saturation of the liquid temperature, in 0.01 C.                        *)
TCap == 10000000

----------------------------------------------------------------------------
(* Scaled-integer arithmetic.                                              *)

FX    == 10^5
LN2   == 69315 * (FX \div 10^5)     \* ln 2 in units of 1/FX
Abs(a) == IF a < 0 THEN -a ELSE a
Min(a, b) == IF a < b THEN a ELSE b
Max(a, b) == IF a > b THEN a ELSE b
Clamp(a, cap) == Max(-cap, Min(cap, a))

(* <<quotient, remainder>> of a*b by c, for a, b >= 0 and 0 < c < 2^30,    *)
(* by doubling on b: no intermediate exceeds the quotient or 2c.           *)
RECURSIVE MD(_, _, _)
MD(a, b, c) ==
  IF b = 0 THEN <<0, 0>>
  ELSE LET h  == MD(a, b \div 2, c)
           q2 == 2 * h[1] + ((2 * h[2]) \div c)
           r2 == (2 * h[2]) % c
           s  == r2 + (a % c)
       IN  IF b % 2 = 1 THEN <<q2 + (a \div c) + (s \div c), s % c>>
                        ELSE <<q2, r2>>

(* a*b/c rounded to nearest, a, b >= 0.  The operands are evaluated before *)
(* the recursion is entered.                                               *)
MulDivR(a, b, c) ==
  IF c > 0 /\ (a = 0 \/ b = 0) THEN 0
  ELSE LET h == MD(a, b, c) IN h[1] + (IF 2 * h[2] >= c THEN 1 ELSE 0)

(* The same for a of either sign.                                          *)
SMulDiv(a, b, c) == IF a >= 0 THEN MulDivR(a, b, c) ELSE -MulDivR(-a, b, c)

(* a*b/c, saturating at +-cap.                                             *)
SatMulDiv(a, b, c, cap) ==
  IF (Abs(a) \div c) > (cap \div b)
  THEN (IF a >= 0 THEN cap ELSE -cap)
  ELSE Clamp(SMulDiv(a, b, c), cap)

(* Largest r with r^3 <= x, 0 <= x < 2 * 10^9.                             *)
ICbrt(x) == CHOOSE r \in 0..1259 : r * r * r <= x /\ (r + 1) * (r + 1) * (r + 1) > x

(* Natural logarithm of x/FX for 0 < x, in units of 1/FX: x is brought     *)
(* into [FX, 2 FX) by doublings, then ln m = 2 atanh((m-1)/(m+1)).        *)
RECURSIVE LnNorm(_, _)
LnNorm(x, k) ==
  IF x < FX THEN LnNorm(2 * x, k - 1)
  ELSE IF x >= 2 * FX THEN LnNorm(x \div 2, k + 1)
  ELSE <<x, k>>

Ln(x) ==
  LET n  == LnNorm(x, 0)
      y  == MulDivR(n[1] - FX, FX, n[1] + FX)
      y2 == MulDivR(y, y, FX)
      s9 == FX \div 9
      s7 == (FX \div 7) + MulDivR(y2, s9, FX)
      s5 == (FX \div 5) + MulDivR(y2, s7, FX)
      s3 == (FX \div 3) + MulDivR(y2, s5, FX)
      s1 == FX + MulDivR(y2, s3, FX)
  IN  n[2] * LN2 + 2 * MulDivR(y, s1, FX)

(* exp(x/FX) in units of 1/FX, x <= 7 FX: x = k ln 2 + r, the series of    *)
(* exp r to the sixth power, then the shift by k.                          *)
Exp(x) ==
  LET k  == IF x >= 0 THEN x \div LN2 ELSE -((-x + LN2 - 1) \div LN2)
      r  == x - k * LN2
      s6 == FX + (r \div 6)
      s5 == FX + MulDivR(r, s6, 5 * FX)
      s4 == FX + MulDivR(r, s5, 4 * FX)
      s3 == FX + MulDivR(r, s4, 3 * FX)
      s2 == FX + MulDivR(r, s3, 2 * FX)
      s1 == FX + MulDivR(r, s2, FX)
  IN  IF k >= 0 THEN s1 * 2^k
      ELSE IF k < -29 THEN 0
      ELSE MulDivR(s1, 1, 2^(-k))

----------------------------------------------------------------------------
(* IEEE-754 binary64 values in [0, 8) that are multiples of 2^-56, as the  *)
(* limbs <<l0, l1, l2>> of the count n = l0 + l1 2^20 + l2 2^40.           *)

Limb == 2^20

RECURSIVE BitLen(_)
BitLen(x) == IF x = 0 THEN 0 ELSE 1 + BitLen(x \div 2)

DblCarry(l) ==
  LET m1 == l[2] + (l[1] \div Limb)
  IN  <<l[1] % Limb, m1 % Limb, l[3] + (m1 \div Limb)>>

DblBits(l) ==
  IF l[3] > 0 THEN 40 + BitLen(l[3])
  ELSE IF l[2] > 0 THEN 20 + BitLen(l[2])
  ELSE BitLen(l[1])

(* Round to 53 significant bits, to nearest, ties to even.                 *)
DblRound(l) ==
  LET s == DblBits(l) - 53
  IN  IF s <= 0 THEN l
      ELSE LET P   == 2^s
               rem == l[1] % P
               q0  == l[1] \div P
               up  == 2 * rem > P \/ (2 * rem = P /\ q0 % 2 = 1)
           IN  DblCarry(<<l[1] - rem + (IF up THEN P ELSE 0), l[2], l[3]>>)

(* a + b as the floating-point unit returns it.                            *)
DblAdd(a, b) == DblRound(DblCarry(<<a[1] + b[1], a[2] + b[2], a[3] + b[3]>>))

DblZero == <<0, 0, 0>>

----------------------------------------------------------------------------
(* Constants of the program.                                               *)

PiNum       == 355          \* np.pi = PiNum / PiDen
PiDen       == 113
hcl_frac    == 6728         \* 0.6728, in 1e-4
Di          == 20           \* 0.020 m, in mm
rho_gas     == 242          \* 2.42, in 1e-2
u_gas_design == 16          \* m/s
steps61     == 60 + 1       \* fault variant of steps: one iteration too many
steps       == 60
L_stepDen   == 10           \* L_step = 0.1 = 1 / L_stepDen in the areas
L_step      == <<629146, 629145, 6553>>   \* the double 0.1 = 0x3FB999999999999A
C_seed      == 500          \* C_curr = 0.05, in 1e-4

(* pi * Di * L_step * N_tubes as the fraction AreaNum / AreaDen (m2).      *)
AreaNum(N) == PiNum * Di * N
AreaDen    == PiDen * 1000 * L_stepDen

(* get_equilibrium_pressure(temp, conc): Pa.  temp in 0.01 C, conc in 1e-4.*)
(* 2500/(temp+273) saturates at +-200 and log_p at 7: exp(-189.5) is 0 at  *)
(* any resolution and 133.322 exp(7) is above the 101325 Pa that           *)
(* P_gas_partial cannot exceed.                                            *)
get_equilibrium_pressure(temp, conc) ==
  IF conc < 100 THEN 0
  ELSE LET d     == temp + 27300
           term  == SatMulDiv(IF d > 0 THEN 250000 ELSE -250000, FX, Abs(d), 200 * FX)
           log_p == 105 * (FX \div 10) - term + 2 * Ln(conc * (FX \div 10^4))
       IN  MulDivR(Exp(Min(log_p, 7 * FX)), 133322, 1000 * FX)

(* Lines 23-25: the overall mass balance, in g/h.                          *)
TotalHclIn(g)        == MulDivR(g * 1000, hcl_frac, 10^4)
ProductRate(g, tgt)  == MulDivR(TotalHclIn(g), 100, tgt)
WaterRate(g, tgt)    == MulDivR(ProductRate(g, tgt), 100 - tgt, 100)

(* Lines 28-31: N_tubes = int(ceil((vol_gas / u_gas_design) / (pi (Di/2)^2))),*)
(* evaluated exactly.  vol_gas / u_gas_design = g 100 / (3600 rho_gas u)   *)
(* and pi (Di/2)^2 = PiNum (Di/2)^2 / (PiDen 10^6), so the quotient is     *)
(* g TubeNum / TubeDen, a factor 10^4 cancelled between the two.           *)
TubeNum == PiDen * 10^4
TubeDen == 36 * rho_gas * u_gas_design * PiNum * (((Di \div 2) * (Di \div 2)) \div 100)
(* Fault variant: int() of the quotient, the ceiling forgotten.            *)
NTubesTrunc(g) == MD(g, TubeNum, TubeDen)[1]
NTubes(g) ==
  LET h == MD(g, TubeNum, TubeDen) IN h[1] + (IF h[2] > 0 THEN 1 ELSE 0)

(* Fault variant: the liquid seeded as pure solvent.                       *)
SeedPureSolvent(water_rate) == 0

(* Line 38: current_hcl_mass = (water_rate * 0.05) / 0.95.                 *)
SeedHclMass(water_rate) == MulDivR(MulDivR(water_rate, 5, 100), 100, 95)

(* Lines 43-45.  m is current_water_mass + current_hcl_mass.               *)
Gamma(m, N) == MulDivR(MulDivR(m, 10, 36), PiDen * 1000, PiNum * Di * N)
ReL(gamma)  == MulDivR(4 * gamma, 10, 8)
(* 100 Re_L^(1/3), from Re_L in 1e-3.                                      *)
CbrtRe(Re)  == IF Re < 2 * 10^6 THEN ICbrt(Re * 1000) ELSE 10 * ICbrt(Re)
HFilm(Re)   == Max(5000, MulDivR(12000, 100, CbrtRe(Re)))

(* Line 47: the gas flow enters as gas_flow/3600 beside a mass in kg/h.    *)
PGasPartial(hcl, g) == MulDivR(hcl, 101325, hcl + MulDivR(g * 1000, 1, 3600))

(* Fault variant: the floor at zero forgotten.                             *)
driving_force_signed(P_gas_partial, P_star) == P_gas_partial - P_star

(* Line 49.                                                                *)
driving_force(P_gas_partial, P_star) == Max(0, P_gas_partial - P_star)

(* Lines 51-52: mass_absorbed in 1e-9 kg/s, Q_gen in 0.1.                  *)
MassAbsorbed(df, N) == MulDivR(MulDivR(250 * df, AreaNum(N), AreaDen), 365, 10)
QGen(ma)            == MulDivR(ma, 18, 10^6)

(* Lines 54-55: the resistances in 1e-9; T and cw in 0.01 C.               *)
UOverall(h) == MulDivR(10^9, 1000, MulDivR(10^9, 10, h) + 500000 + 33333)
QRemoved(U, N, T, cw) == SMulDiv(T - cw, MulDivR(U, AreaNum(N), AreaDen), 10^4)

(* Line 57: dt in 0.01 C; the heat capacity rate m/3600 * 4.18 in 1e-6.    *)
DeltaT(Qg, Qr, m) == SatMulDiv(Qg - Qr, 10^7, MulDivR(m, 418, 360), 2 * TCap)

(* Line 59: mass_absorbed * 3600, in g/h.                                  *)
AbsorbedPerHour(ma) == MulDivR(ma, 36, 10^4)

(* Fault variant: the mass ratio to the solvent instead of the fraction.   *)
ConcRatio(hcl, water) == MulDivR(hcl, 10^4, water)

(* Line 60.                                                                *)
Conc(hcl, water) == MulDivR(hcl, 10^4, hcl + water)

(* Fault variants: the target taken as a percentage (never reached), and  *)
(* the concentration taken as one (reached at once).                       *)
TargetReachedPercent(C, tgt) == C >= tgt * 100 * 100
TargetReachedAtOnce(C, tgt)  == C * 100 >= tgt * 100

(* Line 69: C_curr >= self.target_conc, the target in hundredths.          *)
TargetReached(C, tgt) == C >= tgt * 100

(* Fault variant: the append to flux_profile forgotten.                    *)
AppendEntryNoFlux(prof, e) ==
  <<Append(prof[1], e[1]), Append(prof[2], e[2]), Append(prof[3], e[3]), prof[4]>>

(* Lines 64-67: one entry appended to each of the four lists.              *)
AppendEntry(prof, e) ==
  <<Append(prof[1], e[1]), Append(prof[2], e[2]),
    Append(prof[3], e[3]), Append(prof[4], e[4])>>

(* Fault variant: the last temperature returned as the peak.              *)
SeqLast(q) == q[Len(q)]

(* Line 71: max(temp_liquid).                                              *)
RECURSIVE SeqMax(_)
SeqMax(q) ==
  IF Len(q) = 1 THEN q[1]
  ELSE Max(q[Len(q)], SeqMax(SubSeq(q, 1, Len(q) - 1)))

----------------------------------------------------------------------------
(* State.                                                                  *)

VARIABLES
  gas_flow, gas_temp, target_conc, cw_temp,    \* fields set by __init__
  N_tubes,                                     \* self.N_tubes
  pc,                                          \* "constructed", "loop", "return", "done"
  iter,                                        \* iterations of the for loop completed
  T_curr, C_curr, current_hcl_mass, current_water_mass,
  accumulated_length, total_heat_removed,
  z_axis, temp_liquid, conc_liquid, flux_profile,
  ret                                          \* the tuple solve returns

vars == <<gas_flow, gas_temp, target_conc, cw_temp, N_tubes, pc, iter,
          T_curr, C_curr, current_hcl_mass, current_water_mass,
          accumulated_length, total_heat_removed,
          z_axis, temp_liquid, conc_liquid, flux_profile, ret>>

NoResult == [N_tubes |-> 0, length |-> DblZero, duty |-> 0, max_t |-> 0,
             z_axis |-> <<>>, temp_liquid |-> <<>>, conc_liquid |-> <<>>,
             flux_profile |-> <<>>]

(* AbsorberSimulation(gas_flow, gas_temp, target_conc, cw_temp): lines 7-15.*)
Init ==
  /\ gas_flow \in GasFlows
  /\ gas_temp \in GasTemps
  /\ target_conc \in TargetPcts
  /\ cw_temp \in CwTemps
  /\ N_tubes = 0
  /\ pc = "constructed"
  /\ iter = 0
  /\ T_curr = 0
  /\ C_curr = 0
  /\ current_hcl_mass = 0
  /\ current_water_mass = 0
  /\ accumulated_length = DblZero
  /\ total_heat_removed = 0
  /\ z_axis = <<>>
  /\ temp_liquid = <<>>
  /\ conc_liquid = <<>>
  /\ flux_profile = <<>>
  /\ ret = NoResult

(* solve, lines 23-40: mass balance, tube count, empty profile, seed state.*)
SolveSetup ==
  /\ pc = "constructed"
  /\ N_tubes' = NTubes(gas_flow)
  /\ z_axis' = <<>>
  /\ temp_liquid' = <<>>
  /\ conc_liquid' = <<>>
  /\ flux_profile' = <<>>
  /\ T_curr' = gas_temp * 100
  /\ C_curr' = C_seed
  /\ current_hcl_mass' = SeedHclMass(WaterRate(gas_flow, target_conc))
  /\ current_water_mass' = WaterRate(gas_flow, target_conc)
  /\ accumulated_length' = DblZero
  /\ total_heat_removed' = 0
  /\ iter' = 0
  /\ pc' = "loop"
  /\ UNCHANGED <<gas_flow, gas_temp, target_conc, cw_temp, ret>>

(* One iteration of the for loop, lines 42-69, the break included; the     *)
(* loop is left when the break is taken or range(steps) is used up.        *)
(* The explicit Euler step for T is unstable for most inputs and T grows   *)
(* geometrically in the program; here it stops at +-TCap, where            *)
(* 2500/(T+273) is below 0.03, and temp_liquid, flux_profile and           *)
(* total_heat_removed carry the saturated values from then on.             *)
MarchStep ==
  /\ pc = "loop"
  /\ iter < steps
  /\ LET m             == current_water_mass + current_hcl_mass
         gamma         == Gamma(m, N_tubes)
         Re_L          == ReL(gamma)
         h_film        == HFilm(Re_L)
         P_gas_partial == PGasPartial(current_hcl_mass, gas_flow)
         P_star        == get_equilibrium_pressure(T_curr, C_curr)
         df            == driving_force(P_gas_partial, P_star)
         mass_absorbed == MassAbsorbed(df, N_tubes)
         Q_gen         == QGen(mass_absorbed)
         U_overall     == UOverall(h_film)
         Q_removed     == QRemoved(U_overall, N_tubes, T_curr, cw_temp * 100)
         dt            == DeltaT(Q_gen, Q_removed, m)
         T_new         == Clamp(T_curr + dt, TCap)
         hcl_new       == current_hcl_mass + AbsorbedPerHour(mass_absorbed)
         C_new         == Conc(hcl_new, current_water_mass)
         len_new       == DblAdd(accumulated_length, L_step)
         logged        == AppendEntry(<<z_axis, temp_liquid, conc_liquid, flux_profile>>,
                                      <<len_new, T_new, C_new * 100, Q_removed>>)
     IN  /\ T_curr' = T_new
         /\ current_hcl_mass' = hcl_new
         /\ C_curr' = C_new
         /\ accumulated_length' = len_new
         /\ total_heat_removed' = total_heat_removed + Q_removed
         /\ z_axis' = logged[1]
         /\ temp_liquid' = logged[2]
         /\ conc_liquid' = logged[3]
         /\ flux_profile' = logged[4]
         /\ iter' = iter + 1
         /\ pc' = IF TargetReached(C_new, target_conc) \/ iter + 1 = steps
                  THEN "return" ELSE "loop"
  /\ UNCHANGED <<gas_flow, gas_temp, target_conc, cw_temp, N_tubes,
                 current_water_mass, ret>>

(* Line 71.                                                                *)
Return ==
  /\ pc = "return"
  /\ ret' = [N_tubes |-> N_tubes, length |-> accumulated_length,
             duty |-> total_heat_removed, max_t |-> SeqMax(temp_liquid),
             z_axis |-> z_axis, temp_liquid |-> temp_liquid,
             conc_liquid |-> conc_liquid, flux_profile |-> flux_profile]
  /\ pc' = "done"
  /\ UNCHANGED <<gas_flow, gas_temp, target_conc, cw_temp, N_tubes, iter,
                 T_curr, C_curr, current_hcl_mass, current_water_mass,
                 accumulated_length, total_heat_removed,
                 z_axis, temp_liquid, conc_liquid, flux_profile>>

Next == SolveSetup \/ MarchStep \/ Return

Spec == Init /\ [][Next]_vars

----------------------------------------------------------------------------
(* Properties.                                                             *)

Halted    == pc \in {"return", "done"}
NEntries  == Len(conc_liquid)
(* target_conc x 100 in the unit of conc_liquid (1e-4 percent).            *)
TargetPct == target_conc * 100 * 100
LastConc  == conc_liquid[Len(conc_liquid)]

(* The double k * a for an integer 0 <= k <= 64: the exact product rounded.*)
DblMulInt(k, a) == DblRound(DblCarry(<<k * a[1], k * a[2], k * a[3]>>))

RECURSIVE SeqSum(_)
SeqSum(q) == IF q = <<>> THEN 0 ELSE SeqSum(SubSeq(q, 1, Len(q) - 1)) + q[Len(q)]

(* C1.  The marching loop stops at the first step whose concentration is   *)
(* at or above the target: every recorded concentration but the last is    *)
(* below the target, and once the last one is at or above it the loop has  *)
(* been left (pc is no longer "loop", the only place MarchStep runs), so   *)
(* nothing is appended after it.                                           *)
C1_StopsAtFirstReach ==
  /\ \A i \in 1..(NEntries - 1) : conc_liquid[i] < TargetPct
  /\ (NEntries > 0 /\ LastConc >= TargetPct) => Halted

C1_Witness ==
  /\ pc = "done"
  /\ NEntries = 3
  /\ conc_liquid[2] < TargetPct
  /\ conc_liquid[3] >= TargetPct
  /\ Len(ret.z_axis) = 3

(* C2.  solve halts after at most 60 steps, and each of the four profile   *)
(* lists holds at most 60 entries at every point of the run and in the     *)
(* returned result.                                                        *)
C2_StepBudget ==
  /\ iter <= 60
  /\ (iter = 60 => Halted)
  /\ Len(z_axis) <= 60 /\ Len(temp_liquid) <= 60
  /\ Len(conc_liquid) <= 60 /\ Len(flux_profile) <= 60
  /\ Len(ret.z_axis) <= 60 /\ Len(ret.temp_liquid) <= 60
  /\ Len(ret.conc_liquid) <= 60 /\ Len(ret.flux_profile) <= 60

C2_Witness == pc = "done" /\ iter = 60 /\ Len(ret.z_axis) = 60 /\ LastConc < TargetPct

(* C3.  After k steps the accumulated length equals k x 0.1, the k-th      *)
(* entry of z_axis equals k x 0.1, and the returned length equals          *)
(* (number of profile entries) x 0.1.                                      *)
C3_LengthIsStepsTimesStep ==
  /\ pc # "constructed" => accumulated_length = DblMulInt(iter, L_step)
  /\ \A k \in 1..Len(z_axis) : z_axis[k] = DblMulInt(k, L_step)
  /\ pc = "done" => ret.length = DblMulInt(Len(ret.z_axis), L_step)

(* C4.  The recorded concentration never decreases from one step to the    *)
(* next, the first recorded one is at least the seed 0.05, and the solvent *)
(* mass is the one the mass balance set.                                   *)
C4_ConcentrationMonotone ==
  /\ \A i \in 1..(NEntries - 1) : conc_liquid[i] <= conc_liquid[i + 1]
  /\ NEntries >= 1 => conc_liquid[1] >= C_seed * 100
  /\ pc # "constructed" => current_water_mass = WaterRate(gas_flow, target_conc)

C4_Witness ==
  /\ pc = "done"
  /\ NEntries >= 3
  /\ conc_liquid[1] > C_seed * 100
  /\ \E i \in 1..(NEntries - 1) : conc_liquid[i] < conc_liquid[i + 1]
  /\ \E i \in 1..(NEntries - 1) : conc_liquid[i] = conc_liquid[i + 1]

(* C5.  0 <= C <= 1 for the concentration the loop holds, from the seed    *)
(* through every step, and every recorded percentage lies in [0, 100].     *)
C5_ConcentrationInUnitInterval ==
  /\ 0 <= C_curr /\ C_curr <= 10^4
  /\ \A i \in 1..NEntries : 0 <= conc_liquid[i] /\ conc_liquid[i] <= 100 * 10^4

C5_Witness == pc = "loop" /\ iter >= 1 /\ C_curr > 9700 /\ LastConc = C_curr * 100

(* C6.  The four profile lists always have the same length, the number of  *)
(* completed steps; every step, the one that breaks included, appends      *)
(* exactly one entry to each, and nothing else changes them once solve has *)
(* set them up empty.                                                      *)
SameLengths ==
  /\ Len(z_axis) = iter /\ Len(temp_liquid) = iter
  /\ Len(conc_liquid) = iter /\ Len(flux_profile) = iter

Extended(q, r) == Len(r) = Len(q) + 1 /\ SubSeq(r, 1, Len(q)) = q

OneEntryEach ==
  \/ /\ iter' = iter + 1
     /\ Extended(z_axis, z_axis') /\ Extended(temp_liquid, temp_liquid')
     /\ Extended(conc_liquid, conc_liquid') /\ Extended(flux_profile, flux_profile')
  \/ /\ iter' = iter
     /\ UNCHANGED <<z_axis, temp_liquid, conc_liquid, flux_profile>>

C6_ProfilesInStep == []SameLengths /\ [][OneEntryEach]_vars

C6_Witness ==
  /\ Halted /\ iter = 2 /\ LastConc >= TargetPct
  /\ Len(z_axis) = 2 /\ Len(temp_liquid) = 2 /\ Len(flux_profile) = 2

(* C7.  When the 60 steps are used up with the target never reached, solve *)
(* still returns, in the same shape: on every return the last recorded     *)
(* concentration is at or above the target or the profile has exactly 60   *)
(* entries, a profile of fewer than 60 entries ends at or above the        *)
(* target, and the returned tuple carries the profile as it stands.        *)
C7_SilentUnderConvergence ==
  /\ Halted => (NEntries >= 1 /\ (LastConc >= TargetPct \/ NEntries = 60))
  /\ (Halted /\ NEntries < 60) => LastConc >= TargetPct
  /\ pc = "done" =>
       /\ ret.conc_liquid = conc_liquid /\ ret.z_axis = z_axis
       /\ ret.temp_liquid = temp_liquid /\ ret.flux_profile = flux_profile
       /\ ret.N_tubes = N_tubes

C7_Witness ==
  /\ pc = "done"
  /\ Len(ret.conc_liquid) = 60
  /\ ret.conc_liquid[60] < TargetPct

(* C8.  The returned length is the last entry of z_axis, the returned heat *)
(* duty is the sum of the entries of flux_profile, and the returned peak   *)
(* temperature is the largest recorded temperature; the inlet temperature  *)
(* gas_temp is not among the candidates.                                   *)
C8_ResultAggregates ==
  pc = "done" =>
    /\ ret.length = ret.z_axis[Len(ret.z_axis)]
    /\ ret.duty = SeqSum(ret.flux_profile)
    /\ \A i \in 1..Len(ret.temp_liquid) : ret.temp_liquid[i] <= ret.max_t
    /\ \E i \in 1..Len(ret.temp_liquid) : ret.temp_liquid[i] = ret.max_t

C8_Witness ==
  /\ pc = "done"
  /\ Len(ret.temp_liquid) >= 2
  /\ ret.max_t # ret.temp_liquid[Len(ret.temp_liquid)]
  /\ ret.max_t < ret.temp_liquid[1] + 1
  /\ ret.duty # ret.flux_profile[1]

C8_WitnessBelowInlet == pc = "done" /\ ret.max_t < gas_temp * 100

(* C9.  With target_conc at or below the seed 0.05 exactly one step is     *)
(* executed: one profile entry, length 0.1.  The target is tested only     *)
(* after a step, so the loop is never left with an empty profile.          *)
C9_SeedTargetStopsAtStepOne ==
  /\ (Halted /\ TargetReached(C_seed, target_conc)) =>
        /\ iter = 1
        /\ Len(z_axis) = 1 /\ Len(temp_liquid) = 1
        /\ Len(conc_liquid) = 1 /\ Len(flux_profile) = 1
        /\ accumulated_length = L_step
  /\ Halted => iter >= 1 /\ NEntries >= 1
  /\ pc = "loop" => iter < steps

C9_Witness ==
  /\ pc = "done" /\ target_conc = 5 /\ C_seed = target_conc * 100
  /\ Len(ret.z_axis) = 1 /\ ret.length = L_step

(* C10.  The tube count is the ceiling of the exact requirement            *)
(* gas_flow/3600/2.42/16.0 over the tube cross-section: never below it,    *)
(* less than one above it, and no smaller flow needs more tubes, no larger *)
(* flow fewer.                                                             *)
ReqNum == TubeNum \div 80
ReqDen == TubeDen \div 80

C10_TubeCountCeilingMonotone ==
  (pc = "loop" /\ iter = 0) =>
    /\ 80 * ReqNum = TubeNum /\ 80 * ReqDen = TubeDen
    /\ N_tubes * ReqDen >= gas_flow * ReqNum
    /\ (N_tubes - 1) * ReqDen < gas_flow * ReqNum
    /\ \A g \in 1..MaxGasFlow :
         /\ g <= gas_flow => NTubes(g) <= N_tubes
         /\ g >= gas_flow => NTubes(g) >= N_tubes

C10_Witness ==
  /\ pc = "loop" /\ iter = 0
  /\ gas_flow = 100 /\ N_tubes = 3
  /\ N_tubes * ReqDen > gas_flow * ReqNum
  /\ \E g \in 1..MaxGasFlow : g > gas_flow /\ NTubes(g) > N_tubes
  /\ \E g \in 1..MaxGasFlow : g < gas_flow /\ NTubes(g) < N_tubes

============================================================================
